---------------------------- MODULE Spec2Model ----------------------------
(***************************************************************************)
(* Hostess & Club Night Job Board API (src/main.py, src/schemas.py).       *)
(*                                                                         *)
(* The state is the document store (collections model, club, gig and       *)
(* application), the module-level store handle db, the wall clock read by  *)
(* create_document, and the last request with its response.  Every route   *)
(* handler is one action.  Optional values (Python's None) are sequences   *)
(* of length 0 or 1: <<>> is None, <<v>> is the value v.  Identifier       *)
(* strings are sequences of characters, so that ObjectId parsing and       *)
(* str(ObjectId) are computed, not assumed.                                *)
(*                                                                         *)
(* Three specifications share the state.  Spec: the routes of src/main.py, *)
(* one request at a time.  SeedSpec: seed requests served together, each   *)
(* store call one step (seeding holds their locals).  ContractSpec: the    *)
(* contract routes of the design document (collection contract).           *)
(***************************************************************************)
EXTENDS Integers, Sequences, FiniteSets, TLC

VARIABLES db, model, club, gig, application, contract, clock, nextId, writes, issued,
          seeding, resp

vars == <<db, model, club, gig, application, contract, clock, nextId, writes, issued,
          seeding, resp>>

store == <<model, club, gig, application>>

\* ------------------------------------------------------------------ bounds

\* Write requests (POST) per behaviour.
MaxWrites == 2

\* The number of the first identifier the store generates.
FirstOid == 170

\* ------------------------------------------------------- optional values

None == <<>>

Some(v) == <<v>>

\* Python truthiness of an optional str (a query parameter): None and "" are
\* both false.
TruthyStr(o) == o # None /\ o[1] # ""

\* The same for an optional identifier string (a sequence of characters).
TruthyId(o) == o # None /\ o[1] # <<>>

\* ------------------------------------------------- identifiers (ObjectId)

\* Characters per identifier string (24 in bson; 2 here).
OidLen == 2

LowerHex == <<"0", "1", "2", "3", "4", "5", "6", "7", "8", "9", "a", "b", "c", "d", "e", "f">>

UpperHex == <<"0", "1", "2", "3", "4", "5", "6", "7", "8", "9", "A", "B", "C", "D", "E", "F">>

IsHexChar(c) == \E i \in 1..16 : LowerHex[i] = c \/ UpperHex[i] = c

HexValue(c) == (CHOOSE i \in 1..16 : LowerHex[i] = c \/ UpperHex[i] = c) - 1

\* ObjectId.is_valid(s) for a str: exactly OidLen hexadecimal characters, of
\* either case.
ValidOid(s) == Len(s) = OidLen /\ \A i \in 1..Len(s) : IsHexChar(s[i])

\* ObjectId(s) for a valid s: the identifier's value.
ParseOid(s) == HexValue(s[1]) * 16 + HexValue(s[2])

\* str(ObjectId): lower-case hexadecimal.
OidStr(n) == <<LowerHex[(n \div 16) + 1], LowerHex[(n % 16) + 1]>>

\* str.upper() of an identifier string.
UpperStr(s) == [i \in 1..Len(s) |-> IF IsHexChar(s[i]) THEN UpperHex[HexValue(s[i]) + 1] ELSE s[i]]

\* ------------------------------------------------------ schemas.py records

\* A field's value in a request body, or the schema's default when the body
\* leaves the field out.
FieldOr(p, f, default) == IF f \in DOMAIN p THEN p[f] ELSE default

\* Field(..., ge=lo) on an optional number.
Ge(o, lo) == o = None \/ o[1] >= lo

\* Field(..., le=hi) on an optional number.
Le(o, hi) == o = None \/ o[1] <= hi

\* Model validated without le=50 on experience_years.
ValidModelMutant(p) ==
    /\ Ge(FieldOr(p, "experience_years", Some(0)), 0)
    /\ Ge(FieldOr(p, "hourly_rate", None), 0)

\* Model: experience_years Optional[int] ge=0 le=50, hourly_rate
\* Optional[float] ge=0.
ValidModel(p) ==
    /\ Ge(FieldOr(p, "experience_years", Some(0)), 0)
    /\ Le(FieldOr(p, "experience_years", Some(0)), 50)
    /\ Ge(FieldOr(p, "hourly_rate", None), 0)

\* ModelSchema(**p).model_dump(): the fields with their defaults filled in.
ModelSchema(p) ==
    [city |-> p.city,
     experience_years |-> FieldOr(p, "experience_years", Some(0)),
     hourly_rate |-> FieldOr(p, "hourly_rate", None),
     skills |-> FieldOr(p, "skills", <<>>)]

\* Club: name and city are required strings, nothing is range-checked.
ClubSchema(p) == [city |-> p.city]

\* Gig: spots int ge=1, default 1.
ValidGig(p) == FieldOr(p, "spots", 1) >= 1

GigSchema(p) == [city |-> p.city, spots |-> FieldOr(p, "spots", 1)]

\* Application: gig_id and model_id are required strings; status is any
\* string, default "pending".
ApplicationSchema(p) ==
    [gig_id |-> p.gig_id,
     model_id |-> p.model_id,
     status |-> FieldOr(p, "status", "pending")]

\* ------------------------------------------------ the document store

\* A query is a function from field names to conditions: [op |-> "eq", v |-> x]
\* is {field: x}, [op |-> "in", v |-> S] is {field: {"$in": S}} on a list
\* field (some element of the list is in S).
NoQuery == <<>>

Eq(x) == [op |-> "eq", v |-> x]

In(S) == [op |-> "in", v |-> S]

Matches(d, q) ==
    \A f \in DOMAIN q :
        IF q[f].op = "eq"
        THEN d[f] = q[f].v
        ELSE \E i \in 1..Len(d[f]) : d[f][i] \in q[f].v

\* create_document(collection, data): the collection with the document
\* appended under a fresh _id.  Documents of "gig" carry the created_at stamp
\* that list_gigs reads; the stamp of the other collections is read nowhere
\* and is left out.
CreateDocument(coll, data, id) == Append(coll, data @@ ("_id" :> id))

Stamped(data, now) == data @@ ("created_at" :> now)

\* get_documents(collection, query): the matching documents, in store order.
GetDocuments(coll, q) == SelectSeq(coll, LAMBDA d : Matches(d, q))

\* A lookup that finds a document whatever the identifier.
FoundMutant(coll, oid) == TRUE

\* db[collection].find_one({"_id": oid}) is not None.
Found(coll, oid) == \E i \in 1..Len(coll) : coll[i]._id = oid

\* db[collection].count_documents({}).
CountDocuments(coll) == Len(coll)

\* ------------------------------------------------------------ _serialize

\* _id becomes id = str(_id); every other field is kept.
Serialize(d) ==
    [f \in (DOMAIN d \ {"_id"}) \cup {"id"} |-> IF f = "id" THEN OidStr(d._id) ELSE d[f]]

SerializeAll(docs) == [i \in 1..Len(docs) |-> Serialize(docs[i])]

\* ------------------------------------------------------------- seed data

demo_clubs ==
    <<[city |-> "Miami"], [city |-> "Las Vegas"], [city |-> "New York"],
      [city |-> "Los Angeles"], [city |-> "Chicago"], [city |-> "San Diego"]>>

demo_models ==
    <<[city |-> "Miami", experience_years |-> Some(3), hourly_rate |-> Some(55),
       skills |-> <<"VIP", "Bottle Service", "Promo", "Bilingual">>],
      [city |-> "New York", experience_years |-> Some(4), hourly_rate |-> Some(60),
       skills |-> <<"Hostess", "Bilingual", "Front Desk", "Greeter">>],
      [city |-> "Las Vegas", experience_years |-> Some(5), hourly_rate |-> Some(70),
       skills |-> <<"Bottle Service", "VIP", "Team Lead">>],
      [city |-> "Los Angeles", experience_years |-> Some(2), hourly_rate |-> Some(48),
       skills |-> <<"Promo", "Greeter", "Registration">>],
      [city |-> "Chicago", experience_years |-> Some(6), hourly_rate |-> Some(65),
       skills |-> <<"VIP", "Check-in", "Hostess">>],
      [city |-> "Austin", experience_years |-> Some(3), hourly_rate |-> Some(45),
       skills |-> <<"Promo", "Sampling", "Greeter">>],
      [city |-> "San Diego", experience_years |-> Some(4), hourly_rate |-> Some(58),
       skills |-> <<"VIP", "Hostess", "Bottle Service">>],
      [city |-> "Seattle", experience_years |-> Some(2), hourly_rate |-> Some(44),
       skills |-> <<"Registration", "Greeter", "Bilingual">>],
      [city |-> "Houston", experience_years |-> Some(7), hourly_rate |-> Some(75),
       skills |-> <<"Bottle Service", "VIP", "Lead">>],
      [city |-> "Miami", experience_years |-> Some(3), hourly_rate |-> Some(52),
       skills |-> <<"Model", "Promo", "VIP">>],
      [city |-> "Los Angeles", experience_years |-> Some(5), hourly_rate |-> Some(68),
       skills |-> <<"Hostess", "VIP", "Front Desk">>],
      [city |-> "Dallas", experience_years |-> Some(4), hourly_rate |-> Some(62),
       skills |-> <<"Bottle Service", "VIP", "Promo">>]>>

demo_gigs ==
    <<[city |-> "Miami", spots |-> 4], [city |-> "Las Vegas", spots |-> 3],
      [city |-> "New York", spots |-> 2], [city |-> "Los Angeles", spots |-> 5],
      [city |-> "Chicago", spots |-> 2], [city |-> "San Diego", spots |-> 3],
      [city |-> "Miami", spots |-> 6], [city |-> "Las Vegas", spots |-> 2],
      [city |-> "New York", spots |-> 4], [city |-> "Los Angeles", spots |-> 5]>>

\* The thresholds under which seed_demo loads a collection.
ClubThreshold == 6

ModelThreshold == 12

GigThreshold == 10

\* ----------------------------------------------------------- responses

\* The last request and its response: the route, the HTTP status, the request's
\* input and the response body (None for an error).
Response(op, status, req, body) == [op |-> op, status |-> status, req |-> req, body |-> body]

NoRequest == Response("none", 0, None, None)

\* --------------------------------------------------- POST /api/seed

\* The threshold test written with <= for <.
BelowThresholdMutant(count, threshold) == count <= threshold

\* `if club_count < 6:` and its two siblings.

BelowThreshold(count, threshold) == count < threshold

\* The loop leaving at the first insert that raises.
RECURSIVE SeedLoopMutant(_, _, _, _, _)
SeedLoopMutant(docs, failing, stamps, i, acc) ==
    IF i > Len(docs) \/ i \in failing
    THEN acc
    ELSE LET data == IF stamps # <<>> THEN Stamped(docs[i], stamps[i]) ELSE docs[i]
         IN  SeedLoopMutant(docs, failing, stamps, i + 1,
                            [coll |-> CreateDocument(acc.coll, data, acc.id),
                             id |-> acc.id + 1,
                             created |-> acc.created + 1])

\* One `for c in demo: try: create_document(...); created += 1 except: pass`
\* loop from record i on.  failing: the records whose insert raises; stamps:
\* the clock readings of the inserts (<<>> for a collection whose created_at
\* is not modelled).
RECURSIVE SeedLoop(_, _, _, _, _)
SeedLoop(docs, failing, stamps, i, acc) ==
    IF i > Len(docs)
    THEN acc
    ELSE LET data == IF stamps # <<>> THEN Stamped(docs[i], stamps[i]) ELSE docs[i]
             next == IF i \in failing
                     THEN acc
                     ELSE [coll |-> CreateDocument(acc.coll, data, acc.id),
                           id |-> acc.id + 1,
                           created |-> acc.created + 1]
         IN  SeedLoop(docs, failing, stamps, i + 1, next)

\* A seed block that loads its demo records into an emptied collection.
SeedCollectionMutant(coll, count, threshold, docs, failing, stamps, id) ==
    IF BelowThreshold(count, threshold)
    THEN SeedLoop(docs, failing, stamps, 1, [coll |-> <<>>, id |-> id, created |-> 0])
    ELSE [coll |-> coll, id |-> id, created |-> 0]

\* One collection's part of seed_demo: the threshold test and the loop.
SeedCollection(coll, count, threshold, docs, failing, stamps, id) ==
    IF BelowThreshold(count, threshold)
    THEN SeedLoop(docs, failing, stamps, 1, [coll |-> coll, id |-> id, created |-> 0])
    ELSE [coll |-> coll, id |-> id, created |-> 0]

\* The records of one collection among the failing inserts of a call.
FailingOf(faults, name) == {f[2] : f \in {g \in faults : g[1] = name}}

\* The inserts that may fail in one call.
FaultCandidates == {<<"club", 2>>, <<"model", 1>>, <<"gig", 3>>}

\* The failing inserts of one call: none, or one of the candidates.
FaultSets == {{}} \cup {{f} : f \in FaultCandidates}

\* The time since the store's previous created_at stamp.
Elapsed == {0, 1}

\* The gig insert of a call that reads the clock within the tick of the insert
\* before it (0: none does).
TiedInserts == {0, 2}

\* The clock readings of the gig inserts of a call: one tick apart, but for
\* the tied insert.
SeedStamps(tied) ==
    [i \in 1..Len(demo_gigs) |-> clock + i - (IF tied # 0 /\ i >= tied THEN 1 ELSE 0)]

seed_demo(faults, tied) ==
    /\ writes < MaxWrites
    /\ writes' = writes + 1
    /\ UNCHANGED <<db, application, issued, contract, seeding>>
    /\ IF db = "None"
       THEN /\ resp' = Response("seed", 500, None, None)
            /\ UNCHANGED <<model, club, gig, clock, nextId>>
       ELSE LET model_count == CountDocuments(model)
                gig_count == CountDocuments(gig)
                club_count == CountDocuments(club)
                c == SeedCollection(club, club_count, ClubThreshold,
                                    [i \in 1..Len(demo_clubs) |-> ClubSchema(demo_clubs[i])],
                                    FailingOf(faults, "club"), <<>>, nextId)
                m == SeedCollection(model, model_count, ModelThreshold,
                                    [i \in 1..Len(demo_models) |-> ModelSchema(demo_models[i])],
                                    FailingOf(faults, "model"), <<>>, c.id)
                g == SeedCollection(gig, gig_count, GigThreshold,
                                    [i \in 1..Len(demo_gigs) |-> GigSchema(demo_gigs[i])],
                                    FailingOf(faults, "gig"), SeedStamps(tied), m.id)
            IN  /\ club' = c.coll
                /\ model' = m.coll
                /\ gig' = g.coll
                /\ nextId' = g.id
                /\ clock' = IF BelowThreshold(gig_count, GigThreshold)
                            THEN SeedStamps(tied)[Len(demo_gigs)]
                            ELSE clock
                /\ resp' = Response("seed", 200, None,
                                    [models_before |-> model_count,
                                     gigs_before |-> gig_count,
                                     clubs_before |-> club_count,
                                     models_created |-> m.created,
                                     gigs_created |-> g.created,
                                     clubs_created |-> c.created,
                                     total_models |-> CountDocuments(m.coll),
                                     total_gigs |-> CountDocuments(g.coll),
                                     total_clubs |-> CountDocuments(c.coll)])

\* ------------------------------------------- /api/models (hostesses)

ModelPayloads ==
    {[city |-> "Miami", skills |-> <<"VIP", "Promo">>, experience_years |-> Some(50),
      hourly_rate |-> Some(0)],
     [city |-> "miami", skills |-> <<"vip">>, experience_years |-> None],
     [city |-> ""],
     [city |-> "Miami", experience_years |-> Some(51)],
     [city |-> "Miami", hourly_rate |-> Some(-1)]}

create_model(payload) ==
    /\ writes < MaxWrites
    /\ writes' = writes + 1
    /\ UNCHANGED <<db, club, gig, application, clock, contract, seeding>>
    /\ IF ~ValidModel(payload)
       THEN /\ resp' = Response("create_model", 422, payload, None)
            /\ UNCHANGED <<model, nextId, issued>>
       ELSE IF db = "None"
       THEN /\ resp' = Response("create_model", 500, payload, None)
            /\ UNCHANGED <<model, nextId, issued>>
       ELSE /\ model' = CreateDocument(model, ModelSchema(payload), nextId)
            /\ nextId' = nextId + 1
            /\ issued' = issued \cup {[id |-> OidStr(nextId), city |-> payload.city]}
            /\ resp' = Response("create_model", 200, payload, [id |-> OidStr(nextId)])

Cities == {None, Some(""), Some("Miami")}

Skills == {None, Some(""), Some("VIP"), Some("VI")}

\* A string in lower case, and whether one string is part of another, on the
\* strings of the model.
LowerCase(x) == IF x = "VIP" THEN "vip" ELSE IF x = "VI" THEN "vi" ELSE IF x = "Miami" THEN "miami" ELSE x

\* list_models matching the skill in either case.
ModelsQueryMutant(city, skill) ==
    (IF TruthyStr(city) THEN "city" :> Eq(city[1]) ELSE NoQuery)
        @@ (IF TruthyStr(skill)
            THEN "skills" :> In({skill[1], LowerCase(skill[1])})
            ELSE NoQuery)

\* list_models lower-casing the city it filters by.
ModelsQueryCityMutant(city, skill) ==
    (IF TruthyStr(city) THEN "city" :> Eq(LowerCase(city[1])) ELSE NoQuery)
        @@ (IF TruthyStr(skill) THEN "skills" :> In({skill[1]}) ELSE NoQuery)

\* The query list_models builds; a parameter that is None or "" adds nothing.
ModelsQuery(city, skill) ==
    (IF TruthyStr(city) THEN "city" :> Eq(city[1]) ELSE NoQuery)
        @@ (IF TruthyStr(skill) THEN "skills" :> In({skill[1]}) ELSE NoQuery)

\* The body list_models answers with on the current store.
ListModels(city, skill) == SerializeAll(GetDocuments(model, ModelsQuery(city, skill)))

list_models(city, skill) ==
    /\ UNCHANGED <<db, model, club, gig, application, clock, nextId, writes, issued, contract, seeding>>
    /\ resp' = IF db = "None"
               THEN Response("list_models", 500, <<city, skill>>, None)
               ELSE Response("list_models", 200, <<city, skill>>, ListModels(city, skill))

\* ------------------------------------------------------- /api/clubs

ClubPayloads == {[city |-> "Miami"]}

create_club(payload) ==
    /\ writes < MaxWrites
    /\ writes' = writes + 1
    /\ UNCHANGED <<db, model, gig, application, clock, issued, contract, seeding>>
    /\ IF db = "None"
       THEN /\ resp' = Response("create_club", 500, payload, None)
            /\ UNCHANGED <<club, nextId>>
       ELSE /\ club' = CreateDocument(club, ClubSchema(payload), nextId)
            /\ nextId' = nextId + 1
            /\ resp' = Response("create_club", 200, payload, [id |-> OidStr(nextId)])

CityQuery(city) == IF TruthyStr(city) THEN "city" :> Eq(city[1]) ELSE NoQuery

ListClubs(city) == SerializeAll(GetDocuments(club, CityQuery(city)))

list_clubs(city) ==
    /\ UNCHANGED <<db, model, club, gig, application, clock, nextId, writes, issued, contract, seeding>>
    /\ resp' = IF db = "None"
               THEN Response("list_clubs", 500, city, None)
               ELSE Response("list_clubs", 200, city, ListClubs(city))

\* -------------------------------------------------------- /api/gigs

GigPayloads == {[city |-> "Miami", spots |-> 2], [city |-> "Austin"], [city |-> "Miami", spots |-> 0]}

\* dt: the time since the store's previous created_at stamp.
create_gig(payload, dt) ==
    /\ writes < MaxWrites
    /\ writes' = writes + 1
    /\ UNCHANGED <<db, model, club, application, issued, contract, seeding>>
    /\ IF ~ValidGig(payload)
       THEN /\ resp' = Response("create_gig", 422, payload, None)
            /\ UNCHANGED <<gig, nextId, clock>>
       ELSE IF db = "None"
       THEN /\ resp' = Response("create_gig", 500, payload, None)
            /\ UNCHANGED <<gig, nextId, clock>>
       ELSE /\ gig' = CreateDocument(gig, Stamped(GigSchema(payload), clock + dt), nextId)
            /\ clock' = clock + dt
            /\ nextId' = nextId + 1
            /\ resp' = Response("create_gig", 200, payload, [id |-> OidStr(nextId)])

\* docs.sort(key=created_at, reverse=True): d goes behind every document at
\* least as new (the sort is stable, so equal stamps keep their order).
InsertNewestFirst(sorted, d) ==
    LET k == Cardinality({i \in 1..Len(sorted) : sorted[i].created_at >= d.created_at})
    IN  SubSeq(sorted, 1, k) \o <<d>> \o SubSeq(sorted, k + 1, Len(sorted))

RECURSIVE SortFrom(_, _, _)
SortFrom(docs, i, sorted) ==
    IF i > Len(docs) THEN sorted ELSE SortFrom(docs, i + 1, InsertNewestFirst(sorted, docs[i]))

\* list_gigs without its sort.
SortNewestFirstMutant(docs) == docs

\* docs.sort(key=lambda d: d.get("created_at"), reverse=True).

SortNewestFirst(docs) == SortFrom(docs, 1, <<>>)

ListGigs(city) == SerializeAll(SortNewestFirst(GetDocuments(gig, CityQuery(city))))

list_gigs(city) ==
    /\ UNCHANGED <<db, model, club, gig, application, clock, nextId, writes, issued, contract, seeding>>
    /\ resp' = IF db = "None"
               THEN Response("list_gigs", 500, city, None)
               ELSE Response("list_gigs", 200, city, ListGigs(city))

\* ------------------------------------------------ /api/applications

\* A well-formed identifier no document has, and a string that is no
\* identifier.
MissingId == <<"0", "0">>

MalformedId == <<"z", "1">>

\* The identifier strings a caller tries for a collection: its newest
\* document's id as the API printed it, the same in upper case, a missing one
\* and a malformed one.
IdInputs(coll) ==
    (IF coll = <<>>
     THEN {}
     ELSE {OidStr(coll[Len(coll)]._id), UpperStr(OidStr(coll[Len(coll)]._id))})
        \cup {MissingId, MalformedId}

ApplicationPayloads ==
    {[gig_id |-> g, model_id |-> m] : g \in IdInputs(gig), m \in IdInputs(model)}
        \cup {[gig_id |-> g, model_id |-> m, status |-> s] :
                g \in IdInputs(gig) \ {MissingId, MalformedId},
                m \in IdInputs(model) \ {MissingId, MalformedId, UpperStr(MissingId)},
                s \in {"approved", "banana"}}

\* The try block of apply_to_gig raises: db is None (db["gig"] on None) or
\* ObjectId() rejects one of the strings.
LookupRaises(payload) ==
    db = "None" \/ ~ValidOid(payload.gig_id) \/ ~ValidOid(payload.model_id)

\* apply_to_gig testing `if not gig` alone.
ApplyStatusMutant(payload) ==
    IF LookupRaises(payload)
    THEN 400
    ELSE IF ~Found(gig, ParseOid(payload.gig_id))
    THEN 404
    ELSE 200

\* The status apply_to_gig answers with.
ApplyStatus(payload) ==
    IF LookupRaises(payload)
    THEN 400
    ELSE IF ~Found(gig, ParseOid(payload.gig_id)) \/ ~Found(model, ParseOid(payload.model_id))
    THEN 404
    ELSE 200

apply_to_gig(payload) ==
    /\ writes < MaxWrites
    /\ writes' = writes + 1
    /\ UNCHANGED <<db, model, club, gig, clock, issued, contract, seeding>>
    /\ IF ApplyStatus(payload) = 200
       THEN /\ application' = CreateDocument(application, ApplicationSchema(payload), nextId)
            /\ nextId' = nextId + 1
            /\ resp' = Response("apply_to_gig", 200, payload, [id |-> OidStr(nextId)])
       ELSE /\ resp' = Response("apply_to_gig", ApplyStatus(payload), payload, None)
            /\ UNCHANGED <<application, nextId>>

\* str(ObjectId(s)), or s itself when ObjectId() rejects it.
NormalizeId(s) == IF ValidOid(s) THEN OidStr(ParseOid(s)) ELSE s

ApplicationsQuery(gig_id, model_id) ==
    (IF TruthyId(gig_id) THEN "gig_id" :> Eq(NormalizeId(gig_id[1])) ELSE NoQuery)
        @@ (IF TruthyId(model_id) THEN "model_id" :> Eq(NormalizeId(model_id[1])) ELSE NoQuery)

ListApplications(gig_id, model_id) ==
    SerializeAll(GetDocuments(application, ApplicationsQuery(gig_id, model_id)))

list_applications(gig_id, model_id) ==
    /\ UNCHANGED <<db, model, club, gig, application, clock, nextId, writes, issued, contract, seeding>>
    /\ resp' = IF db = "None"
               THEN Response("list_applications", 500, <<gig_id, model_id>>, None)
               ELSE Response("list_applications", 200, <<gig_id, model_id>>,
                             ListApplications(gig_id, model_id))

\* The (gig_id, model_id) parameters a caller lists applications with.
ApplicationFilters ==
    {<<None, None>>, <<Some(<<>>), None>>}
        \cup {<<Some(g), None>> : g \in IdInputs(gig)}
        \cup {<<None, Some(m)>> : m \in IdInputs(model) \ {MissingId, MalformedId}}
        \cup {<<Some(UpperStr(g)), Some(UpperStr(m))>> : g \in IdInputs(gig) \ {MissingId, MalformedId},
                                     m \in IdInputs(model) \ {MissingId, MalformedId}}

\* ------------------------------------- POST /api/seed, concurrently

\* seed_demo statement by statement, for requests served together: every
\* call of the store (a count_documents, a create_document) is one step of
\* its request, and the steps of the requests interleave freely.

\* The seed requests in flight together.
Requests == {1, 2}

\* A request that has not started: its program counter and its locals.
Idle ==
    [pc |-> "start", model_count |-> 0, gig_count |-> 0, club_count |-> 0, i |-> 1,
     created_models |-> 0, created_gigs |-> 0, created_clubs |-> 0,
     total_models |-> 0, total_gigs |-> 0]

\* ---------------------------------------------------- the specification

Init ==
    /\ db \in {"None", "Database"}
    /\ model = <<>>
    /\ club = <<>>
    /\ gig = <<>>
    /\ application = <<>>
    /\ clock = 0
    /\ nextId = FirstOid
    /\ writes = 0
    /\ issued = {}
    /\ contract = <<>>
    /\ seeding = [r \in Requests |-> Idle]
    /\ resp = NoRequest

ListOps == {"list_models", "list_clubs", "list_gigs", "list_applications"}

\* The POST requests.
Write ==
    \/ \E faults \in FaultSets, tied \in TiedInserts : seed_demo(faults, tied)
    \/ \E payload \in ModelPayloads : create_model(payload)
    \/ \E payload \in ClubPayloads : create_club(payload)
    \/ \E payload \in GigPayloads, dt \in Elapsed : create_gig(payload, dt)
    \/ \E payload \in ApplicationPayloads : apply_to_gig(payload)

\* The GET requests.
List ==
    \/ \E city \in Cities, skill \in Skills : list_models(city, skill)
    \/ \E city \in {None, Some("Miami")} : list_clubs(city)
    \/ \E city \in Cities : list_gigs(city)
    \/ \E f \in ApplicationFilters : list_applications(f[1], f[2])

\* A listing changes nothing but the response, so a listing that directly
\* follows another listing answers what it would have answered in its place:
\* those steps reach no new store and no new response and are left out.
Next == Write \/ (resp.op \notin ListOps /\ List)

Spec == Init /\ [][Next]_vars

\* --------------------------------------------------- /api/contracts

\* The contract routes of the design document (section 4.5: create, sign,
\* check-in, check-out; section 6: their paths and the listing).  Their
\* handlers are in no source file modelled above: every definition of this
\* section is written from that description.

\* Contract requests per behaviour.
MaxContractOps == 3

\* Create fills contract_text from a template when none is supplied; a field
\* that is missing falls back to its placeholder.
ContractText(p) ==
    IF p.contract_text # None
    THEN p.contract_text[1]
    ELSE <<"template",
           IF p.client_name # None THEN p.client_name[1] ELSE "Client",
           IF p.venue # None THEN p.venue[1] ELSE "Venue">>

\* A new contract: its state is pending and none of its four stamps is set.
ContractSchema(p) ==
    [contract_text |-> ContractText(p),
     status |-> "pending",
     signed_talent_at |-> None,
     signed_client_at |-> None,
     check_in |-> None,
     check_out |-> None]

ContractPayloads ==
    {[client_name |-> None, venue |-> Some("LIV"), contract_text |-> None],
     [client_name |-> Some("Ada"), venue |-> None, contract_text |-> Some(<<"as agreed">>)]}

create_contract(payload) ==
    /\ writes < MaxContractOps
    /\ writes' = writes + 1
    /\ clock' = clock + 1
    /\ UNCHANGED <<db, model, club, gig, application, issued, seeding>>
    /\ IF db = "None"
       THEN /\ resp' = Response("create_contract", 500, payload, None)
            /\ UNCHANGED <<contract, nextId>>
       ELSE /\ contract' = CreateDocument(contract, Stamped(ContractSchema(payload), clock'), nextId)
            /\ nextId' = nextId + 1
            /\ resp' = Response("create_contract", 200, payload, [id |-> OidStr(nextId)])

\* The stamp of a sign, check-in or check-out request: the caller's, or the
\* current time.
StampOf(at, now) == IF at # None THEN at[1] ELSE now

\* The caller-supplied stamps tried.
SuppliedStamps == {None, Some(0)}

\* A transition that is refused out of order: check-out before any check-in,
\* check-in after check-out.
TransitionStatusMutant(op, id) ==
    IF db = "None"
    THEN 500
    ELSE IF ~ValidOid(id)
    THEN 400
    ELSE IF ~Found(contract, ParseOid(id))
    THEN 404
    ELSE IF \E i \in 1..Len(contract) :
                /\ contract[i]._id = ParseOid(id)
                /\ \/ op = "check_out" /\ contract[i].check_in = None
                   \/ op = "check_in" /\ contract[i].check_out # None
    THEN 409
    ELSE 200

\* The status a sign, check-in or check-out request is answered with: the
\* request fails on a missing store, on an identifier that does not parse
\* and on an identifier of no contract, and on nothing else.
TransitionStatus(op, id) ==
    IF db = "None"
    THEN 500
    ELSE IF ~ValidOid(id)
    THEN 400
    ELSE IF ~Found(contract, ParseOid(id))
    THEN 404
    ELSE 200

\* The blind "set field" update of one document.
SetFields(coll, oid, fields) ==
    [i \in 1..Len(coll) |-> IF coll[i]._id = oid THEN fields @@ coll[i] ELSE coll[i]]

\* The fields each transition sets.
SignFields(actor, stamp) ==
    ((IF actor = "talent" THEN "signed_talent_at" ELSE "signed_client_at") :> Some(stamp))
        @@ ("status" :> "active")

CheckInFields(stamp) == "check_in" :> Some(stamp)

CheckOutFields(stamp) == ("check_out" :> Some(stamp)) @@ ("status" :> "completed")

\* One sign, check-in or check-out request.
Transition(op, id, req, fields) ==
    /\ writes < MaxContractOps
    /\ writes' = writes + 1
    /\ clock' = clock + 1
    /\ UNCHANGED <<db, model, club, gig, application, nextId, issued, seeding>>
    /\ resp' = Response(op, TransitionStatus(op, id), req, None)
    /\ contract' = IF TransitionStatus(op, id) = 200
                   THEN SetFields(contract, ParseOid(id), fields)
                   ELSE contract

sign_contract(id, actor, at) ==
    Transition("sign", id, [id |-> id, actor |-> actor, at |-> at],
               SignFields(actor, StampOf(at, clock')))

check_in(id, at) ==
    Transition("check_in", id, [id |-> id, at |-> at], CheckInFields(StampOf(at, clock')))

check_out(id, at) ==
    Transition("check_out", id, [id |-> id, at |-> at], CheckOutFields(StampOf(at, clock')))

\* GET /api/contracts with its status filter: the selected contracts, sorted
\* by created_at, newest first.
ContractsQuery(status) == IF TruthyStr(status) THEN "status" :> Eq(status[1]) ELSE NoQuery

ListContracts(status) ==
    SerializeAll(SortNewestFirst(GetDocuments(contract, ContractsQuery(status))))

list_contracts(status) ==
    /\ resp.op # "list_contracts"
    /\ UNCHANGED <<db, model, club, gig, application, contract, clock, nextId, writes, issued,
                   seeding>>
    /\ resp' = IF db = "None"
               THEN Response("list_contracts", 500, status, None)
               ELSE Response("list_contracts", 200, status, ListContracts(status))

ContractNext ==
    \/ \E payload \in ContractPayloads : create_contract(payload)
    \/ \E id \in IdInputs(contract), actor \in {"talent", "client"}, at \in SuppliedStamps :
            sign_contract(id, actor, at)
    \/ \E id \in IdInputs(contract), at \in SuppliedStamps : check_in(id, at)
    \/ \E id \in IdInputs(contract), at \in SuppliedStamps : check_out(id, at)
    \/ \E status \in {None, Some("completed")} : list_contracts(status)

ContractSpec == Init /\ [][ContractNext]_vars

\* ------------------------------ POST /api/seed, concurrently: steps

\* The three loops in program order, with the count each one tests, its
\* threshold and its records.
SeedLoops == <<"clubs", "models", "gigs">>

LoopCount(s, n) == <<s.club_count, s.model_count, s.gig_count>>[n]

LoopThreshold(n) == <<ClubThreshold, ModelThreshold, GigThreshold>>[n]

LoopDocs(n) ==
    IF n = 1 THEN [i \in 1..Len(demo_clubs) |-> ClubSchema(demo_clubs[i])]
    ELSE IF n = 2 THEN [i \in 1..Len(demo_models) |-> ModelSchema(demo_models[i])]
    ELSE [i \in 1..Len(demo_gigs) |-> GigSchema(demo_gigs[i])]

LoopNo(pc) == CHOOSE n \in 1..Len(SeedLoops) : SeedLoops[n] = pc

\* Where a request goes after loop n (n = 0: after the count reads): into the
\* next loop whose `if x_count < threshold:` holds, or to the return
\* statement.
RECURSIVE AfterLoop(_, _)
AfterLoop(s, n) ==
    IF n >= Len(SeedLoops)
    THEN "total_models"
    ELSE IF BelowThreshold(LoopCount(s, n + 1), LoopThreshold(n + 1))
    THEN SeedLoops[n + 1]
    ELSE AfterLoop(s, n + 1)

\* The identifier of the i-th record of loop n of request r.  An ObjectId is
\* generated by the inserting client, with no coordination: a request draws
\* its identifiers from a range of its own.
DemoRecords == Len(demo_clubs) + Len(demo_models) + Len(demo_gigs)

SeedOid(r, n, i) ==
    FirstOid + (r - 1) * DemoRecords
        + (IF n = 1 THEN 0 ELSE IF n = 2 THEN Len(demo_clubs) ELSE Len(demo_clubs) + Len(demo_models))
        + (i - 1)

\* create_document called by one of several requests.  No seed request reads
\* the order of a collection (count_documents alone is called): the
\* documents are kept in _id order, so that behaviours that differ only in
\* the order of arrival of two requests' documents meet in one state.
InsertDocument(coll, data, id) ==
    SelectSeq(coll, LAMBDA d : d._id < id)
        \o <<data @@ ("_id" :> id)>>
        \o SelectSeq(coll, LAMBDA d : d._id > id)

\* `if db is None: raise HTTPException(500)`, then the first count read.
seed_start(r) ==
    /\ seeding[r].pc = "start"
    /\ UNCHANGED <<db, model, club, gig, application, contract, clock, nextId, issued>>
    /\ IF db = "None"
       THEN /\ seeding' = [seeding EXCEPT ![r].pc = "done"]
            /\ writes' = writes + 1
            /\ resp' = Response("seed", 500, r, None)
       ELSE /\ seeding' = [seeding EXCEPT ![r].model_count = CountDocuments(model),
                                          ![r].pc = "count_gigs"]
            /\ UNCHANGED <<writes, resp>>

seed_count_gigs(r) ==
    /\ seeding[r].pc = "count_gigs"
    /\ seeding' = [seeding EXCEPT ![r].gig_count = CountDocuments(gig),
                                  ![r].pc = "count_clubs"]
    /\ UNCHANGED <<db, model, club, gig, application, contract, clock, nextId, writes, issued,
                   resp>>

\* The last count read, and the threshold tests that follow it.
seed_count_clubs(r) ==
    /\ seeding[r].pc = "count_clubs"
    /\ LET s == [seeding[r] EXCEPT !.club_count = CountDocuments(club)]
       IN  seeding' = [seeding EXCEPT ![r] = [s EXCEPT !.pc = AfterLoop(s, 0)]]
    /\ UNCHANGED <<db, model, club, gig, application, contract, clock, nextId, writes, issued,
                   resp>>

\* One turn of a loop: `create_document(...); created += 1`.  Every insert
\* goes through here (an insert that raises is an input of seed_demo above),
\* so that what two requests store is the doing of their interleaving alone.
seed_insert(r) ==
    /\ seeding[r].pc \in {SeedLoops[n] : n \in 1..Len(SeedLoops)}
    /\ LET s == seeding[r]
           n == LoopNo(s.pc)
           grown == InsertDocument(<<club, model, gig>>[n], LoopDocs(n)[s.i], SeedOid(r, n, s.i))
           counted == [s EXCEPT !.created_clubs = @ + (IF n = 1 THEN 1 ELSE 0),
                                !.created_models = @ + (IF n = 2 THEN 1 ELSE 0),
                                !.created_gigs = @ + (IF n = 3 THEN 1 ELSE 0)]
       IN  /\ club' = IF n = 1 THEN grown ELSE club
           /\ model' = IF n = 2 THEN grown ELSE model
           /\ gig' = IF n = 3 THEN grown ELSE gig
           /\ seeding' = [seeding EXCEPT ![r] =
                            IF s.i < Len(LoopDocs(n))
                            THEN [counted EXCEPT !.i = s.i + 1]
                            ELSE [counted EXCEPT !.i = 1, !.pc = AfterLoop(s, n)]]
    /\ UNCHANGED <<db, application, contract, clock, nextId, writes, issued, resp>>

\* The count reads of the return statement.
seed_total_models(r) ==
    /\ seeding[r].pc = "total_models"
    /\ seeding' = [seeding EXCEPT ![r].total_models = CountDocuments(model),
                                  ![r].pc = "total_gigs"]
    /\ UNCHANGED <<db, model, club, gig, application, contract, clock, nextId, writes, issued,
                   resp>>

seed_total_gigs(r) ==
    /\ seeding[r].pc = "total_gigs"
    /\ seeding' = [seeding EXCEPT ![r].total_gigs = CountDocuments(gig),
                                  ![r].pc = "total_clubs"]
    /\ UNCHANGED <<db, model, club, gig, application, contract, clock, nextId, writes, issued,
                   resp>>

\* The last count read and the response; the locals end with the call.
seed_return(r) ==
    /\ seeding[r].pc = "total_clubs"
    /\ seeding' = [seeding EXCEPT ![r] = [Idle EXCEPT !.pc = "done"]]
    /\ writes' = writes + 1
    /\ resp' = Response("seed", 200, r,
                        [models_before |-> seeding[r].model_count,
                         gigs_before |-> seeding[r].gig_count,
                         clubs_before |-> seeding[r].club_count,
                         models_created |-> seeding[r].created_models,
                         gigs_created |-> seeding[r].created_gigs,
                         clubs_created |-> seeding[r].created_clubs,
                         total_models |-> seeding[r].total_models,
                         total_gigs |-> seeding[r].total_gigs,
                         total_clubs |-> CountDocuments(club)])
    /\ UNCHANGED <<db, model, club, gig, application, contract, clock, nextId, issued>>

SeedNext ==
    \E r \in Requests :
        \/ seed_start(r)
        \/ seed_count_gigs(r)
        \/ seed_count_clubs(r)
        \/ seed_insert(r)
        \/ seed_total_models(r)
        \/ seed_total_gigs(r)
        \/ seed_return(r)

\* Only seed requests, on the store as it is after start-up (empty).
SeedSpec == Init /\ [][SeedNext]_vars

\* ------------------------------------------------- steps and helpers

WriteOps == {"seed", "create_model", "create_club", "create_gig", "apply_to_gig"}

\* The step is a POST request of route op.
StepOf(op) == writes' = writes + 1 /\ resp'.op = op

\* docs continues old: nothing of old is removed, reordered or changed.
Extends(docs, old) == Len(docs) >= Len(old) /\ SubSeq(docs, 1, Len(old)) = old

\* The identifier string names a document of the collection.
Resolves(coll, x) ==
    /\ Len(x) = OidLen
    /\ \A i \in 1..Len(x) : IsHexChar(x[i])
    /\ \E i \in 1..Len(coll) : OidStr(coll[i]._id) = [k \in 1..Len(x) |-> LowerHex[HexValue(x[k]) + 1]]

WellFormed(x) == Len(x) = OidLen /\ \A i \in 1..Len(x) : IsHexChar(x[i])

\* The ids of a response body, as a set, and how often one occurs.
IdsOf(body) == {body[i].id : i \in 1..Len(body)}

Occurrences(body, id) == Cardinality({i \in 1..Len(body) : body[i].id = id})

PositionOf(body, id) == CHOOSE i \in 1..Len(body) : body[i].id = id

\* ------------------------------------------------------------------ C1

\* C1 as stated, on a configured store: an apply_to_gig request answers 404
\* when gig_id or model_id is a well-formed identifier of no document, 400
\* when gig_id or model_id is malformed, and stores nothing in both cases.
C1_AsStated ==
    [][(StepOf("apply_to_gig") /\ db = "Database") =>
        LET p == resp'.req
        IN  /\ ((WellFormed(p.gig_id) /\ ~Resolves(gig, p.gig_id))
                    \/ (WellFormed(p.model_id) /\ ~Resolves(model, p.model_id)))
                => resp'.status = 404
            /\ (~WellFormed(p.gig_id) \/ ~WellFormed(p.model_id)) => resp'.status = 400
            /\ resp'.status \in {400, 404} => application' = application]_vars

\* C1 amended: apply_to_gig answers 400 when either identifier is malformed
\* or the lookup itself raises (the store handle is None); it answers 404 when
\* both identifiers are well-formed, the lookup completes and one of them
\* names no document; otherwise it stores the application.  A failed request
\* stores nothing.
C1_ApplyErrors ==
    [][StepOf("apply_to_gig") =>
        LET p == resp'.req
            raises == db = "None" \/ ~WellFormed(p.gig_id) \/ ~WellFormed(p.model_id)
            unresolved == ~Resolves(gig, p.gig_id) \/ ~Resolves(model, p.model_id)
        IN  /\ raises => resp'.status = 400
            /\ (~raises /\ unresolved) => resp'.status = 404
            /\ (~raises /\ ~unresolved) =>
                    /\ resp'.status = 200
                    /\ Len(application') = Len(application) + 1
            /\ resp'.status \in {400, 404} => application' = application]_vars

\* A request with one identifier missing and the other malformed was answered
\* 400 on a configured store.
C1_Witness ==
    /\ resp.op = "apply_to_gig"
    /\ db = "Database"
    /\ resp.status = 400
    /\ WellFormed(resp.req.gig_id)
    /\ ~Resolves(gig, resp.req.gig_id)
    /\ ~WellFormed(resp.req.model_id)
    /\ gig # <<>>

\* ------------------------------------------------------------------ C2

\* The step is a seed request that the store answered.
SeedStep == StepOf("seed") /\ resp'.status = 200

CreatesNothing ==
    /\ model' = model
    /\ club' = club
    /\ gig' = gig
    /\ resp'.body.models_created = 0
    /\ resp'.body.clubs_created = 0
    /\ resp'.body.gigs_created = 0

\* Every insert a seed response's call attempted went through: a collection
\* it found under its threshold got all its demo records.
FullyLoaded(body) ==
    /\ body.clubs_before >= 6 \/ body.clubs_created = 6
    /\ body.models_before >= 12 \/ body.models_created = 12
    /\ body.gigs_before >= 10 \/ body.gigs_created = 10

Validated(r) ==
    /\ r.op = "create_model" => ValidModel(r.req)
    /\ r.op = "create_gig" => ValidGig(r.req)

\* C3: with the store handle None, every write endpoint answers a validated
\* request with a 5xx status and writes nothing.
C3_WritesUnavailable ==
    (db = "None" /\ resp.op \in WriteOps /\ Validated(resp)) =>
        /\ resp.status >= 500
        /\ resp.status <= 599
        /\ model = <<>> /\ club = <<>> /\ gig = <<>> /\ application = <<>>

\* ------------------------------------------------------------------ C4

\* The gig documents, in creation order, that a city parameter selects.
Selected(city) ==
    {i \in 1..Len(gig) : city = None \/ city[1] = "" \/ gig[i].city = city[1]}

\* C4 as stated: in a gig listing, of two selected gigs the one created later
\* comes first.
C4_AsStated ==
    (resp.op = "list_gigs" /\ resp.status = 200) =>
        \A i, j \in Selected(resp.req) :
            i < j => PositionOf(resp.body, OidStr(gig[j]._id))
                        < PositionOf(resp.body, OidStr(gig[i]._id))

\* C4 amended: a gig listing holds each selected gig once, ordered by
\* created_at descending: of two selected gigs the one with the later stamp
\* comes first, and two gigs with the same stamp come in creation order.
C4_NewestFirst ==
    (resp.op = "list_gigs" /\ resp.status = 200) =>
        /\ Len(resp.body) = Cardinality(Selected(resp.req))
        /\ \A i \in Selected(resp.req) : Occurrences(resp.body, OidStr(gig[i]._id)) = 1
        /\ \A i, j \in Selected(resp.req) :
            i < j =>
                IF gig[i].created_at < gig[j].created_at
                THEN PositionOf(resp.body, OidStr(gig[j]._id))
                        < PositionOf(resp.body, OidStr(gig[i]._id))
                ELSE gig[i].created_at = gig[j].created_at
                        /\ PositionOf(resp.body, OidStr(gig[i]._id))
                            < PositionOf(resp.body, OidStr(gig[j]._id))

\* A listing answered, next to each other, a gig newer than the next and two
\* gigs of one stamp.
C4_Witness ==
    /\ resp.op = "list_gigs"
    /\ resp.status = 200
    /\ Len(resp.body) >= 3
    /\ \E k \in 1..(Len(resp.body) - 1) : resp.body[k].created_at > resp.body[k + 1].created_at
    /\ \E k \in 1..(Len(resp.body) - 1) : resp.body[k].created_at = resp.body[k + 1].created_at

\* ------------------------------------------------------------------ C5

\* C5: a create_model request with a valid body is answered with an
\* identifier (the store being configured), and from then on a listing of
\* models by the profile's city holds the profile of that identifier exactly
\* once.
C5_CreatedIsListed ==
    /\ (resp.op = "create_model" /\ db = "Database"
            /\ Ge(FieldOr(resp.req, "experience_years", Some(0)), 0)
            /\ Le(FieldOr(resp.req, "experience_years", Some(0)), 50)
            /\ Ge(FieldOr(resp.req, "hourly_rate", None), 0)) =>
        /\ resp.status = 200
        /\ [id |-> resp.body.id, city |-> resp.req.city] \in issued
    /\ \A r \in issued :
        /\ Occurrences(ListModels(Some(r.city), None), r.id) = 1
        /\ \A i \in 1..Len(ListModels(Some(r.city), None)) :
            LET d == ListModels(Some(r.city), None)[i]
            IN  d.id = r.id => d.city = r.city
    /\ (resp.op = "list_models" /\ resp.status = 200 /\ resp.req[2] = None) =>
        \A r \in issued : resp.req[1] = Some(r.city) => Occurrences(resp.body, r.id) = 1

\* A listing by city, made after a later write, answered a profile created
\* before that write.
C5_Witness ==
    /\ resp.op = "list_models"
    /\ resp.status = 200
    /\ resp.req = <<Some("Miami"), None>>
    /\ Len(model) > 1
    /\ \E r \in issued :
        /\ r.city = "Miami"
        /\ Occurrences(resp.body, r.id) = 1
        /\ OidStr(model[Len(model)]._id) # r.id

\* ------------------------------------------------------------------ C6

\* The ids of the profiles with the skill among their tags and, when a city
\* is asked for, in that city.
WithSkill(city, skill) ==
    {OidStr(model[i]._id) : i \in
        {k \in 1..Len(model) :
            /\ \E t \in 1..Len(model[k].skills) : model[k].skills[t] = skill
            /\ city # None => model[k].city = city[1]}}

\* C6 as stated: a listing with a skill parameter answers exactly the
\* profiles with that string among their tags (and in the city, when a city
\* parameter is given).
C6_AsStated ==
    (resp.op = "list_models" /\ resp.status = 200 /\ resp.req[2] # None) =>
        IdsOf(resp.body) = WithSkill(resp.req[1], resp.req[2][1])

\* C6 amended: a listing with a non-empty skill parameter answers exactly the
\* profiles with that string among their tags, and in the city when a
\* non-empty city parameter is given; an empty skill or city parameter
\* filters nothing.
C6_SkillIsExact ==
    (resp.op = "list_models" /\ resp.status = 200) =>
        LET city == IF resp.req[1] = Some("") THEN None ELSE resp.req[1]
            skill == resp.req[2]
        IN  /\ (skill # None /\ skill # Some("")) =>
                    IdsOf(resp.body) = WithSkill(city, skill[1])
            /\ (skill = None \/ skill = Some("")) =>
                    IdsOf(resp.body) =
                        {OidStr(model[i]._id) : i \in
                            {k \in 1..Len(model) : city # None => model[k].city = city[1]}}
            /\ Len(resp.body) = Cardinality(IdsOf(resp.body))

\* A listing by skill left out a profile whose tag differs from the skill in
\* case only, and one left out a profile whose tag contains the skill.
C6_Witness ==
    /\ resp.op = "list_models"
    /\ resp.status = 200
    /\ \/ /\ resp.req[2] = Some("VIP")
          /\ IdsOf(resp.body) # {}
          /\ \E i \in 1..Len(model) :
                /\ model[i].skills = <<"vip">>
                /\ OidStr(model[i]._id) \notin IdsOf(resp.body)
       \/ /\ resp.req[2] = Some("VI")
          /\ IdsOf(resp.body) = {}
          /\ \E i \in 1..Len(model) : model[i].skills # <<>> /\ model[i].skills[1] = "VIP"

\* ------------------------------------------------------------------ C7

\* C7: every stored application has status pending, approved or rejected.
C7_StatusIsKnown ==
    \A i \in 1..Len(application) :
        application[i].status \in {"pending", "approved", "rejected"}

\* ------------------------------------------------------------------ C8

\* The ids of the stored applications whose field equals the string.
WithField(f, x) ==
    {OidStr(application[i]._id) : i \in {k \in 1..Len(application) : application[k][f] = x}}

\* C8: a listing of applications by the gig_id alone (the model_id alone)
\* that an application was created with answers exactly the stored
\* applications whose gig_id (model_id) equals that string, that application
\* among them.
C8_FilterUnmodified ==
    (resp.op = "list_applications" /\ resp.status = 200) =>
        /\ (resp.req[1] # None /\ resp.req[2] = None
                /\ WithField("gig_id", resp.req[1][1]) # {}) =>
                IdsOf(resp.body) = WithField("gig_id", resp.req[1][1])
        /\ (resp.req[2] # None /\ resp.req[1] = None
                /\ WithField("model_id", resp.req[2][1]) # {}) =>
                IdsOf(resp.body) = WithField("model_id", resp.req[2][1])

\* ------------------------------------------------------------------ C9

\* C9: every step keeps every document of every collection as it is, in its
\* place, and a step that is no POST request leaves the store unchanged.
C9_NothingDeleted ==
    [][/\ Extends(model', model)
       /\ Extends(club', club)
       /\ Extends(gig', gig)
       /\ Extends(application', application)
       /\ (writes' = writes) => store' = store]_vars

\* Each kind of request has been made on a store that held documents of every
\* collection: here a listing, after an application was stored over seeded
\* data.
C9_Witness ==
    /\ resp.op \in ListOps
    /\ resp.status = 200
    /\ application # <<>>
    /\ Len(model) >= 12
    /\ Len(gig) >= 10
    /\ Len(club) >= 6

\* ----------------------------------------------------------------- C10

\* A request body breaks a bound of its schema.
BreaksModelBound(p) ==
    \/ /\ "experience_years" \in DOMAIN p
       /\ p.experience_years # None
       /\ (p.experience_years[1] < 0 \/ p.experience_years[1] > 50)
    \/ /\ "hourly_rate" \in DOMAIN p
       /\ p.hourly_rate # None
       /\ p.hourly_rate[1] < 0

BreaksGigBound(p) == "spots" \in DOMAIN p /\ p.spots < 1

BoundsHold ==
    /\ \A i \in 1..Len(gig) : gig[i].spots >= 1
    /\ \A i \in 1..Len(model) :
        /\ model[i].experience_years # None =>
                (model[i].experience_years[1] >= 0 /\ model[i].experience_years[1] <= 50)
        /\ model[i].hourly_rate # None => model[i].hourly_rate[1] >= 0

\* C10: every stored gig has spots >= 1 and every stored profile has
\* experience_years in 0..50 and hourly_rate >= 0, each when it is not null;
\* a create request whose body breaks one of these bounds is answered with a
\* validation error (422) and stores nothing.
C10_BoundsValidated ==
    /\ []BoundsHold
    /\ [][/\ (StepOf("create_model") /\ BreaksModelBound(resp'.req)) =>
                (resp'.status = 422 /\ store' = store)
          /\ (StepOf("create_gig") /\ BreaksGigBound(resp'.req)) =>
                (resp'.status = 422 /\ store' = store)]_vars

\* A profile with experience_years 50 and hourly_rate 0 is stored, and the
\* last request, a profile with experience_years 51, was refused.
C10_Witness ==
    /\ resp.op = "create_model"
    /\ resp.status = 422
    /\ FieldOr(resp.req, "experience_years", None) = Some(51)
    /\ \E i \in 1..Len(model) :
        model[i].experience_years = Some(50) /\ model[i].hourly_rate = Some(0)


\* ----------------------------------------------------------------- C11

\* The step is a request of route op, made on a configured store, whose
\* identifier names a stored contract.
TransitionStep(op) ==
    /\ StepOf(op)
    /\ db # "None"
    /\ Resolves(contract, resp'.req.id)

\* The place of the contract an identifier string names.
TargetOf(id) == CHOOSE i \in 1..Len(contract) : contract[i]._id = ParseOid(id)

\* C11: a check-out of a stored contract is accepted and leaves it with
\* status "completed" and a check_out stamp, whatever its state was (checked
\* in or not, signed or not, completed already); a check-in of a stored
\* contract is accepted and stamps check_in, after a check-out too; a
\* signature is accepted in every state: no order of sign, check-in and
\* check-out is enforced.
C11_NoOrdering ==
    [][/\ TransitionStep("check_out") =>
            /\ resp'.status = 200
            /\ contract'[TargetOf(resp'.req.id)].status = "completed"
            /\ contract'[TargetOf(resp'.req.id)].check_out # None
       /\ TransitionStep("check_in") =>
            /\ resp'.status = 200
            /\ contract'[TargetOf(resp'.req.id)].check_in # None
            /\ contract'[TargetOf(resp'.req.id)].status = contract[TargetOf(resp'.req.id)].status
       /\ TransitionStep("sign") =>
            /\ resp'.status = 200
            /\ contract'[TargetOf(resp'.req.id)].status = "active"]_vars

\* A contract nobody signed was checked out before any check-in, and the
\* check-in that came after it was accepted: the contract is completed and
\* its check_in stamp is later than its check_out stamp.
C11_Witness ==
    /\ resp.op = "check_in"
    /\ resp.status = 200
    /\ resp.req.at = None
    /\ \E k \in 1..Len(contract) :
        /\ contract[k]._id = ParseOid(resp.req.id)
        /\ contract[k].status = "completed"
        /\ contract[k].signed_talent_at = None
        /\ contract[k].signed_client_at = None
        /\ contract[k].check_out # None
        /\ contract[k].check_in # None
        /\ contract[k].check_in[1] > contract[k].check_out[1]


\* ----------------------------------------------------------------- C12

\* A stored document without the fields the store adds.
Bare(d) == [f \in DOMAIN d \ {"_id", "created_at"} |-> d[f]]

\* The records of docs whose insert does not fail, in their order.
Survivors(docs, failing) ==
    LET kept == SelectSeq([i \in 1..Len(docs) |-> i], LAMBDA i : i \notin failing)
    IN  [k \in 1..Len(kept) |-> docs[kept[k]]]

\* What a seed call did to one collection, with these inserts failing: under
\* the threshold every record whose insert did not fail was appended, in
\* order; at the threshold nothing was; the counts reported are the counts of
\* the collection before the call, of the documents appended and of the
\* collection after the call.
BestEffort(old, new, docs, failing, threshold, before, created, total) ==
    /\ before = Len(old)
    /\ Extends(new, old)
    /\ created = Len(new) - Len(old)
    /\ total = before + created
    /\ total = Len(new)
    /\ IF Len(old) < threshold
       THEN [k \in 1..created |-> Bare(new[Len(old) + k])] = Survivors(docs, failing)
       ELSE new = old

\* C12: a seed request on a configured store answers 200 whichever inserts
\* fail; in each collection under its threshold every demo record but the
\* failing ones is inserted (a failure stops neither the rest of its
\* collection nor the collections after it); each *_created is the number of
\* documents the call inserted, and total_X = X_before + X_created.
C12_BestEffort ==
    [][(StepOf("seed") /\ db # "None") =>
        /\ resp'.status = 200
        /\ \E faults \in FaultSets :
            /\ BestEffort(club, club', [i \in 1..Len(demo_clubs) |-> ClubSchema(demo_clubs[i])],
                          FailingOf(faults, "club"), ClubThreshold,
                          resp'.body.clubs_before, resp'.body.clubs_created,
                          resp'.body.total_clubs)
            /\ BestEffort(model, model', [i \in 1..Len(demo_models) |-> ModelSchema(demo_models[i])],
                          FailingOf(faults, "model"), ModelThreshold,
                          resp'.body.models_before, resp'.body.models_created,
                          resp'.body.total_models)
            /\ BestEffort(gig, gig', [i \in 1..Len(demo_gigs) |-> GigSchema(demo_gigs[i])],
                          FailingOf(faults, "gig"), GigThreshold,
                          resp'.body.gigs_before, resp'.body.gigs_created,
                          resp'.body.total_gigs)]_vars

\* A seed request on an empty store in which the insert of the second club
\* failed: it answered 200, the other five clubs are stored, the last demo
\* club among them, and so are all the models and all the gigs.
C12_Witness ==
    /\ resp.op = "seed"
    /\ resp.status = 200
    /\ writes = 1
    /\ resp.body.clubs_created = Len(demo_clubs) - 1
    /\ resp.body.models_created = Len(demo_models)
    /\ resp.body.gigs_created = Len(demo_gigs)
    /\ Len(club) = Len(demo_clubs) - 1
    /\ Bare(club[1]) = ClubSchema(demo_clubs[1])
    /\ Bare(club[2]) = ClubSchema(demo_clubs[3])
    /\ Bare(club[Len(club)]) = ClubSchema(demo_clubs[Len(demo_clubs)])
    /\ Len(model) = Len(demo_models)
    /\ Len(gig) = Len(demo_gigs)


\* ----------------------------------------------------------------- C13

AllReturned == \A r \in Requests : seeding[r].pc = "done"

\* C14 as stated: when seed requests alone have run on a store that was
\* empty, interleaved in any way, and all have returned, the store holds at
\* most 6 clubs, 12 models and 10 gigs.
C14_NoDuplicates ==
    AllReturned =>
        /\ Len(club) <= Len(demo_clubs)
        /\ Len(model) <= Len(demo_models)
        /\ Len(gig) <= Len(demo_gigs)

=============================================================================
